---- MODULE Spec2Model ----
(***************************************************************************)
(* Model of the av-studio gateway: the smart router                        *)
(* (src/src/av_studio/gateway/router.py), the cost accountant and the      *)
(* tokenizer caches (src/src/av_studio/gateway/token_analyzer.py).         *)
(*                                                                         *)
(* Numbers.  The source computes with Python floats; the model computes    *)
(* with exact integers in fixed units:                                     *)
(*   money      1 unit = 25 nano-USD   (0.50 USD = 20000000 units)         *)
(*   rates      1 unit = 25 micro-USD per 1000 tokens, so that             *)
(*              (tokens / 1000) * rate  is  tokens * rate  money units     *)
(*   quality    hundredths (0.82 is 82)                                    *)
(*   score      1 point = 400000 units, so that cost * 100 points is       *)
(*              exactly the cost in money units                            *)
(*   latency    milliseconds, integer samples                              *)
(* Float rounding is therefore outside the model.                          *)
(***************************************************************************)
EXTENDS Integers, Sequences, FiniteSets

VARIABLES
    config,            \* SmartRouter.config (a RouterConfig)
    latency_history,   \* SmartRouter._latency_history: key -> list of samples
    arrivals,          \* history variable: key -> every sample ever recorded
    pc,                \* position of the router's caller: "idle" | "returned",
                       \* or a position inside route when route runs in steps
    request,           \* arguments of the route call that returned last
    candidates,        \* route's local list `candidates` at its return
    decision,          \* what the last route call returned or raised
    total_spent,       \* CostCalculator.total_spent
    budget_limit,      \* CostCalculator.budget_limit (None or <<limit>>)
    spending_history,  \* CostCalculator.spending_history
    ret,               \* what the last accountant call returned
    recorded,          \* history variable: estimates of completed record_cost calls
    tpc,               \* per thread: position in check_budget; dispatch; record_cost
    t_est,             \* per thread: the estimate it was approved for
    t_read,            \* per thread: total_spent as loaded by `+=`
    slack,             \* history variable: largest sum of other in-flight
                       \* estimates seen at an approval
    idx,               \* route in steps: index of its current loop
    scored,            \* route in steps: the scores of its local list `scored`
    fallback,          \* route in steps: key of its local `fallback`
    config_seen,       \* history variable: the values self.config had during
                       \* the route call in progress, oldest first
    _tokenizers,       \* TokenAnalyzer._tokenizers: key -> tokenizer instance
    _tiktoken_encodings, \* TokenAnalyzer._tiktoken_encodings: key -> encoding
    built,             \* history variable: constructor calls made so far, as
                       \* a sequence of the families they were made for
    counting,          \* per thread: its count_tokens call in progress
    recording          \* per thread: its record_latency call in progress

routerVars == <<config, latency_history, arrivals, pc, request, candidates, decision>>
acctVars == <<total_spent, budget_limit, spending_history, ret, recorded>>
threadVars == <<tpc, t_est, t_read, slack>>
stepVars == <<idx, scored, fallback, config_seen>>
analyzerVars == <<_tokenizers, _tiktoken_encodings, built, counting>>
concVars == <<stepVars, analyzerVars, recording>>
vars == <<routerVars, acctVars, threadVars, concVars>>

(***************************************************************************)
(* Optional values: Python's None is the empty tuple, a value v is <<v>>.  *)
(***************************************************************************)
None == << >>
Some(v) == <<v>>

Max(a, b) == IF a >= b THEN a ELSE b
Min(a, b) == IF a <= b THEN a ELSE b

RECURSIVE SumSeq(_)
SumSeq(s) == IF s = << >> THEN 0 ELSE s[1] + SumSeq(Tail(s))

\* The last n elements of s (all of s when it is shorter): Python's s[-n:], n > 0.
LastN(s, n) == IF Len(s) <= n THEN s ELSE SubSeq(s, Len(s) - n + 1, Len(s))

\* int(a / b) for b > 0: Python's int() truncates toward zero.
TruncDiv(a, b) == IF a >= 0 THEN a \div b ELSE -((-a) \div b)

(***************************************************************************)
(* TaskType and MODEL_REGISTRY                                             *)
(***************************************************************************)
TaskType == {"chat", "code", "audio_transcription", "audio_generation",
             "image_analysis", "video_analysis", "embedding", "summarization",
             "creative_writing"}

\* Insertion order of the MODEL_REGISTRY dict, which is its iteration order.
RegistryKeys == <<"ollama:llama3.2:8b", "ollama:qwen2.5-coder:7b", "mlx:llama-3.2-8b",
                  "openai:gpt-4o", "anthropic:claude-3.5-sonnet", "google:gemini-2.0-flash">>

KeySet == {RegistryKeys[i] : i \in 1..Len(RegistryKeys)}

MODEL_REGISTRY ==
    [k \in KeySet |->
       CASE k = "ollama:llama3.2:8b" ->
              [supports |-> {"chat", "code", "summarization"}, max_context |-> 128000,
               cost_per_1k_input |-> 0, cost_per_1k_output |-> 0,
               avg_latency_ms |-> 50, quality_score |-> 82, is_local |-> TRUE]
         [] k = "ollama:qwen2.5-coder:7b" ->
              [supports |-> {"code", "chat"}, max_context |-> 32000,
               cost_per_1k_input |-> 0, cost_per_1k_output |-> 0,
               avg_latency_ms |-> 45, quality_score |-> 85, is_local |-> TRUE]
         [] k = "mlx:llama-3.2-8b" ->
              [supports |-> {"chat", "code", "summarization", "creative_writing"},
               max_context |-> 128000,
               cost_per_1k_input |-> 0, cost_per_1k_output |-> 0,
               avg_latency_ms |-> 30, quality_score |-> 82, is_local |-> TRUE]
         [] k = "openai:gpt-4o" ->
              [supports |-> {"chat", "code", "image_analysis", "creative_writing"},
               max_context |-> 128000,
               cost_per_1k_input |-> 100, cost_per_1k_output |-> 400,
               avg_latency_ms |-> 800, quality_score |-> 95, is_local |-> FALSE]
         [] k = "anthropic:claude-3.5-sonnet" ->
              [supports |-> {"chat", "code", "creative_writing", "image_analysis"},
               max_context |-> 200000,
               cost_per_1k_input |-> 120, cost_per_1k_output |-> 600,
               avg_latency_ms |-> 1000, quality_score |-> 96, is_local |-> FALSE]
         [] k = "google:gemini-2.0-flash" ->
              [supports |-> {"chat", "code", "image_analysis", "video_analysis"},
               max_context |-> 1000000,
               cost_per_1k_input |-> 3, cost_per_1k_output |-> 12,
               avg_latency_ms |-> 400, quality_score |-> 90, is_local |-> FALSE]]

(***************************************************************************)
(* RouterConfig                                                            *)
(***************************************************************************)
\* RouterConfig(): the defaults of the dataclass.
DefaultConfig ==
    [prefer_local |-> TRUE, max_cost_usd |-> 20000000, max_latency_ms |-> 2000,
     min_quality_score |-> 80, fallback_model |-> "mlx:llama-3.2-8b"]

\* The configurations a router is constructed with.  The fallback is any string;
\* "missing:model" is one that is no key of the registry.
FallbackChoices == {"mlx:llama-3.2-8b", "openai:gpt-4o", "missing:model"}

ConfigSet ==
    {[prefer_local |-> pl, max_cost_usd |-> mc, max_latency_ms |-> 2000,
      min_quality_score |-> mq, fallback_model |-> fb] :
        pl \in BOOLEAN, mc \in {0, 20000000}, mq \in {80, 96}, fb \in FallbackChoices}

(***************************************************************************)
(* SmartRouter: the pure parts of route                                    *)
(***************************************************************************)
_calculate_cost(model, input_tokens, output_tokens) ==
    LET input_cost == input_tokens * model.cost_per_1k_input
        output_cost == output_tokens * model.cost_per_1k_output
    IN  input_cost + output_cost

\* Older revision: `max_cost or config.max_cost_usd`, where zero counts as unset.
EffectiveMaxCostTruthy(cfg, max_cost) ==
    IF max_cost = None \/ max_cost = Some(0) THEN cfg.max_cost_usd ELSE max_cost[1]

\* effective_max_cost = self.config.max_cost_usd if max_cost is None else max_cost
EffectiveMaxCost(cfg, max_cost) ==
    IF max_cost = None THEN cfg.max_cost_usd ELSE max_cost[1]

\* min_quality = require_quality or self.config.min_quality_score
\* (Python's `or`: None and 0.0 are both falsy).
MinQuality(cfg, require_quality) ==
    IF require_quality = None \/ require_quality = Some(0)
    THEN cfg.min_quality_score
    ELSE require_quality[1]

\* if key in history and history[key]: int(mean of history[key][-10:])
_get_latency_estimate(hist, key, model) ==
    IF key \in DOMAIN hist /\ hist[key] # << >>
    THEN LET recent == LastN(hist[key], 10)
         IN  TruncDiv(SumSeq(recent), Len(recent))
    ELSE model.avg_latency_ms

\* The score with the full 40 quality points for every model.
ScoreWithFullQuality(cfg, model, cost, latency) ==
    LET cost_score == IF cost = 0 THEN 12000000 ELSE Max(0, 12000000 - cost)
        latency_score == Max(0, 8000000 - latency * 4000)
        local == IF cfg.prefer_local /\ model.is_local THEN 4000000 ELSE 0
    IN  16000000 + cost_score + latency_score + local

_score_model(cfg, model, cost, latency) ==
    LET quality == model.quality_score * 160000
        cost_score == IF cost = 0 THEN 12000000 ELSE Max(0, 12000000 - cost)
        latency_score == Max(0, 8000000 - latency * 4000)
        local == IF cfg.prefer_local /\ model.is_local THEN 4000000 ELSE 0
    IN  quality + cost_score + latency_score + local

\* The filter without its task test.
SurvivesNoTaskFilter(cfg, req, key) ==
    LET model == MODEL_REGISTRY[key]
        cost == _calculate_cost(model, req.input_tokens, req.expected_output_tokens)
    IN  /\ ~(req.require_local /\ ~model.is_local)
        /\ ~(req.input_tokens > model.max_context)
        /\ ~(cost > EffectiveMaxCost(cfg, req.max_cost))
        /\ ~(model.quality_score < MinQuality(cfg, req.require_quality))

\* The filter without its cost test.
SurvivesNoCostFilter(cfg, req, key) ==
    LET model == MODEL_REGISTRY[key]
    IN  /\ ~(req.task \notin model.supports)
        /\ ~(req.require_local /\ ~model.is_local)
        /\ ~(req.input_tokens > model.max_context)
        /\ ~(model.quality_score < MinQuality(cfg, req.require_quality))

\* The body of route's loop over the registry: TRUE iff no `continue` is taken.
Survives(cfg, req, key) ==
    LET model == MODEL_REGISTRY[key]
        cost == _calculate_cost(model, req.input_tokens, req.expected_output_tokens)
    IN  /\ ~(req.task \notin model.supports)
        /\ ~(req.require_local /\ ~model.is_local)
        /\ ~(req.input_tokens > model.max_context)
        /\ ~(cost > EffectiveMaxCost(cfg, req.max_cost))
        /\ ~(model.quality_score < MinQuality(cfg, req.require_quality))

\* One entry of `candidates`: (key, model, cost, latency); the model is
\* MODEL_REGISTRY[key].
CandidateOf(cfg, hist, req, key) ==
    [key |-> key,
     cost |-> _calculate_cost(MODEL_REGISTRY[key], req.input_tokens,
                              req.expected_output_tokens),
     latency |-> _get_latency_estimate(hist, key, MODEL_REGISTRY[key])]

RECURSIVE CandidatesFrom(_, _, _, _)
CandidatesFrom(cfg, hist, req, i) ==
    IF i > Len(RegistryKeys) THEN << >>
    ELSE LET rest == CandidatesFrom(cfg, hist, req, i + 1)
         IN  IF Survives(cfg, req, RegistryKeys[i])
             THEN <<CandidateOf(cfg, hist, req, RegistryKeys[i])>> \o rest
             ELSE rest

\* `candidates` after the loop, in registry iteration order.
Candidates(cfg, hist, req) == CandidatesFrom(cfg, hist, req, 1)

ScoreOf(cfg, c) == _score_model(cfg, MODEL_REGISTRY[c.key], c.cost, c.latency)

\* The head of the list without the sort.
BestIndexUnsorted(cfg, cands) == 1

\* A sort that puts the last of several equal scores first.
BestIndexLastOfEqual(cfg, cands) ==
    CHOOSE i \in 1..Len(cands) :
        /\ \A j \in 1..Len(cands) : ScoreOf(cfg, cands[i]) >= ScoreOf(cfg, cands[j])
        /\ \A j \in (i + 1)..Len(cands) : ScoreOf(cfg, cands[j]) < ScoreOf(cfg, cands[i])

\* scored.sort(reverse=True, key=score); scored[0]: the sort is stable, so the
\* head is the first candidate, in list order, that has the greatest score.
BestIndex(cfg, cands) ==
    CHOOSE i \in 1..Len(cands) :
        /\ \A j \in 1..Len(cands) : ScoreOf(cfg, cands[i]) >= ScoreOf(cfg, cands[j])
        /\ \A j \in 1..(i - 1) : ScoreOf(cfg, cands[j]) < ScoreOf(cfg, cands[i])

\* A RoutingDecision as the model keeps it: model is MODEL_REGISTRY[model_key], the
\* reason text is left out, and fallback_path records which return statement ran.
NoDecision ==
    [kind |-> "none", model_key |-> "", estimated_cost |-> 0,
     estimated_latency_ms |-> 0, fallback_path |-> FALSE]

\* The fallback branch of route: `if not candidates:`.
FallbackDecision(cfg) ==
    IF cfg.fallback_model \in DOMAIN MODEL_REGISTRY
    THEN [kind |-> "decision", model_key |-> cfg.fallback_model, estimated_cost |-> 0,
          estimated_latency_ms |-> MODEL_REGISTRY[cfg.fallback_model].avg_latency_ms,
          fallback_path |-> TRUE]
    ELSE [NoDecision EXCEPT !.kind = "KeyError", !.fallback_path = TRUE]

\* What route returns (kind "decision") or raises (kind "KeyError").
RouteResult(cfg, cands) ==
    IF cands = << >>
    THEN FallbackDecision(cfg)
    ELSE LET best == cands[BestIndex(cfg, cands)]
         IN  [kind |-> "decision", model_key |-> best.key, estimated_cost |-> best.cost,
              estimated_latency_ms |-> best.latency, fallback_path |-> FALSE]

(***************************************************************************)
(* SmartRouter: construction, route, record_latency                        *)
(***************************************************************************)
\* The arguments route is called with.
TaskChoices == {"chat", "creative_writing", "image_analysis", "video_analysis",
                "embedding"}
InputTokenChoices == {0, 500, 150000, 2000000}
OutputTokenChoices == {0, 500}
RequireQualityChoices == {None, Some(0), Some(90)}
MaxCostChoices == {None, Some(0), Some(4000)}

RequestSet ==
    [task : TaskChoices, input_tokens : InputTokenChoices,
     expected_output_tokens : OutputTokenChoices, require_local : BOOLEAN,
     require_quality : RequireQualityChoices, max_cost : MaxCostChoices]

NoRequest ==
    [task |-> "", input_tokens |-> 0, expected_output_tokens |-> 0,
     require_local |-> FALSE, require_quality |-> None, max_cost |-> None]

\* The keys and samples record_latency is called with.
LatencyKeys == {"mlx:llama-3.2-8b", "google:gemini-2.0-flash"}
SampleChoices == {15, 2500}

\* Samples kept per model: `if len(...) > 100`, `[-100:]`.
LatencyCap == 100

\* record_latency calls in the router specification.
MaxHist == 2

\* CostCalculator.__init__ and the accountant's callers at rest.
AcctInit ==
    /\ total_spent = 0
    /\ budget_limit = None
    /\ spending_history = << >>
    /\ ret = [op |-> "none"]
    /\ recorded = << >>

\* Concurrent callers of the accountant.
NThreads == 2

Threads == 1..NThreads

NoEstimate == [kind |-> "none", total_cost |-> 0]

ThreadsInit ==
    /\ tpc = [t \in Threads |-> "idle"]
    /\ t_est = [t \in Threads |-> NoEstimate]
    /\ t_read = [t \in Threads |-> 0]
    /\ slack = 0

\* No route call is in progress.
StepInit ==
    /\ idx = 1
    /\ scored = << >>
    /\ fallback = ""
    /\ config_seen = << >>

\* What count_tokens has not yet returned.
NoTokenCount ==
    [input_tokens |-> 0, estimated_output_tokens |-> 0, total_tokens |-> 0, method |-> ""]

\* chars is the length of the text counted, method the tag chosen with the branch,
\* failed tells that the tokenizer raised, result is the TokenCount returned.
NotCounting ==
    [at |-> "idle", key |-> << >>, family |-> "", instance |-> 0,
     chars |-> 0, method |-> "", failed |-> FALSE, result |-> NoTokenCount]

\* TokenAnalyzer.__init__: both caches are empty dicts.
AnalyzerInit ==
    /\ _tokenizers = [k \in {} |-> 0]
    /\ _tiktoken_encodings = [k \in {} |-> 0]
    /\ built = << >>
    /\ counting = [t \in Threads |-> NotCounting]

NotRecording == [at |-> "idle", model_key |-> "", latency_ms |-> 0, slice |-> << >>]

ConcInit ==
    /\ StepInit
    /\ AnalyzerInit
    /\ recording = [t \in Threads |-> NotRecording]

\* SmartRouter.__init__(config): the registry is MODEL_REGISTRY, the history empty.
RouterInit ==
    /\ config \in ConfigSet
    /\ latency_history = [k \in {} |-> << >>]
    /\ arrivals = [k \in {} |-> << >>]
    /\ pc = "idle"
    /\ request = NoRequest
    /\ candidates = << >>
    /\ decision = NoDecision

Init == RouterInit /\ AcctInit /\ ThreadsInit /\ ConcInit

\* route(task, input_tokens, expected_output_tokens, require_local,
\*       require_quality, max_cost), from call to return or raise.
Route(req) ==
    /\ pc = "idle"
    /\ LET cands == Candidates(config, latency_history, req)
       IN  /\ candidates' = cands
           /\ decision' = RouteResult(config, cands)
    /\ request' = req
    /\ pc' = "returned"
    /\ UNCHANGED <<config, latency_history, arrivals, acctVars, threadVars>>
    /\ UNCHANGED concVars

\* The caller takes the decision (or the exception); the router is idle again.
Return ==
    /\ pc = "returned"
    /\ pc' = "idle"
    /\ request' = NoRequest
    /\ candidates' = << >>
    /\ decision' = NoDecision
    /\ UNCHANGED <<config, latency_history, arrivals, acctVars, threadVars>>
    /\ UNCHANGED concVars

\* Truncation that keeps one sample too few.
TruncateOffByOne(samples) ==
    IF Len(samples) > LatencyCap THEN LastN(samples, LatencyCap - 1) ELSE samples

\* if len(h) > 100: h = h[-100:]
Truncate(samples) ==
    IF Len(samples) > LatencyCap THEN LastN(samples, LatencyCap) ELSE samples

\* A recording that appends the sample to every history there is.
RecordedIntoEveryHistory(hist, model_key, latency_ms) ==
    [k \in DOMAIN hist \cup {model_key} |->
        Truncate(Append(IF k \in DOMAIN hist THEN hist[k] ELSE << >>, latency_ms))]

\* The history after record_latency(model_key, latency_ms).
Recorded(hist, model_key, latency_ms) ==
    LET h0 == IF model_key \in DOMAIN hist THEN hist[model_key] ELSE << >>
        h1 == Truncate(Append(h0, latency_ms))
    IN  [k \in DOMAIN hist \cup {model_key} |-> IF k = model_key THEN h1 ELSE hist[k]]

\* record_latency(model_key, latency_ms)
RecordLatency(model_key, latency_ms) ==
    /\ pc = "idle"
    /\ latency_history' = Recorded(latency_history, model_key, latency_ms)
    /\ arrivals' =
         [k \in DOMAIN arrivals \cup {model_key} |->
            IF k = model_key
            THEN Append(IF k \in DOMAIN arrivals THEN arrivals[k] ELSE << >>, latency_ms)
            ELSE arrivals[k]]
    /\ UNCHANGED <<config, pc, request, candidates, decision, acctVars, threadVars>>
    /\ UNCHANGED concVars

ArrivalCount(key) == IF key \in DOMAIN arrivals THEN Len(arrivals[key]) ELSE 0

RECURSIVE SumOver(_, _)
SumOver(f, S) ==
    IF S = {} THEN 0 ELSE LET x == CHOOSE y \in S : TRUE IN f[x] + SumOver(f, S \ {x})

\* Number of record_latency calls so far.
TotalArrivals == SumOver([k \in DOMAIN arrivals |-> Len(arrivals[k])], DOMAIN arrivals)

Next ==
    \/ \E req \in RequestSet : Route(req)
    \/ Return
    \/ \E k \in LatencyKeys, ms \in SampleChoices :
          TotalArrivals < MaxHist /\ RecordLatency(k, ms)

Spec == Init /\ [][Next]_vars

(***************************************************************************)
(* The router with long latency histories: the specification starts from   *)
(* histories that PrefillLen earlier record_latency calls have built, so   *)
(* that the 100-sample bound is reached within a few more calls.           *)
(***************************************************************************)
\* Samples recorded before the first state, per prefilled key.
PrefillLen == 98

\* record_latency calls per key after the first state.
MaxLatencyRecords == 4

\* The samples of the earlier calls: 102, 104, ..., in arrival order.
Prefill == [i \in 1..PrefillLen |-> 100 + 2 * i]

LatencyRequestSet ==
    {r \in RequestSet :
        /\ r.task \in {"chat", "video_analysis"}
        /\ r.input_tokens = 500 /\ r.expected_output_tokens = 500
        /\ ~r.require_local /\ r.require_quality = None /\ r.max_cost = None}

\* record_latency calls for `key` since the first state.
RecordsSinceInit(key) ==
    IF ArrivalCount(key) >= PrefillLen THEN ArrivalCount(key) - PrefillLen
    ELSE ArrivalCount(key)

InitLatency ==
    /\ config = DefaultConfig
    /\ \E D \in SUBSET LatencyKeys :
          /\ latency_history = [k \in D |-> Prefill]
          /\ arrivals = [k \in D |-> Prefill]
    /\ pc = "idle"
    /\ request = NoRequest
    /\ candidates = << >>
    /\ decision = NoDecision
    /\ AcctInit
    /\ ThreadsInit
    /\ ConcInit

NextLatency ==
    \/ \E req \in LatencyRequestSet : Route(req)
    \/ Return
    \/ \E k \in LatencyKeys, ms \in SampleChoices :
          RecordsSinceInit(k) < MaxLatencyRecords /\ RecordLatency(k, ms)

SpecLatency == InitLatency /\ [][NextLatency]_vars

(***************************************************************************)
(* CostCalculator                                                          *)
(*                                                                         *)
(* A model identifier is its sequence of characters, so that lower() and   *)
(* the substring test of _get_pricing are computed as the code does.       *)
(***************************************************************************)
UpperCase == <<"A", "B", "C", "D", "E", "F", "G", "H", "I", "J", "K", "L", "M",
               "N", "O", "P", "Q", "R", "S", "T", "U", "V", "W", "X", "Y", "Z">>
LowerCase == <<"a", "b", "c", "d", "e", "f", "g", "h", "i", "j", "k", "l", "m",
               "n", "o", "p", "q", "r", "s", "t", "u", "v", "w", "x", "y", "z">>

\* str.lower()
Lower(str) ==
    [i \in 1..Len(str) |->
        IF \E j \in 1..26 : UpperCase[j] = str[i]
        THEN LowerCase[CHOOSE j \in 1..26 : UpperCase[j] = str[i]]
        ELSE str[i]]

\* `key in text` for strings
IsSubstring(key, text) ==
    \E i \in 0..(Len(text) - Len(key)) : SubSeq(text, i + 1, i + Len(key)) = key

\* CostCalculator.PRICING, in insertion order; rates in units of 25 micro-USD.
PRICING ==
    <<
      [key |-> <<"g", "p", "t", "-", "4", "o">>,
       pricing |-> [input |-> 100, output |-> 400]],
      [key |-> <<"g", "p", "t", "-", "4", "o", "-", "m", "i", "n", "i">>,
       pricing |-> [input |-> 6, output |-> 24]],
      [key |-> <<"g", "p", "t", "-", "4", "-", "t", "u", "r", "b", "o">>,
       pricing |-> [input |-> 400, output |-> 1200]],
      [key |-> <<"c", "l", "a", "u", "d", "e", "-", "3", "-", "5", "-", "s", "o", "n", "n", "e", "t">>,
       pricing |-> [input |-> 120, output |-> 600]],
      [key |-> <<"c", "l", "a", "u", "d", "e", "-", "3", "-", "5", "-", "h", "a", "i", "k", "u">>,
       pricing |-> [input |-> 32, output |-> 160]],
      [key |-> <<"c", "l", "a", "u", "d", "e", "-", "3", "-", "o", "p", "u", "s">>,
       pricing |-> [input |-> 600, output |-> 3000]],
      [key |-> <<"g", "e", "m", "i", "n", "i", "-", "2", ".", "0", "-", "f", "l", "a", "s", "h">>,
       pricing |-> [input |-> 3, output |-> 12]],
      [key |-> <<"g", "e", "m", "i", "n", "i", "-", "1", ".", "5", "-", "p", "r", "o">>,
       pricing |-> [input |-> 50, output |-> 200]],
      [key |-> <<"o", "l", "l", "a", "m", "a">>,
       pricing |-> [input |-> 0, output |-> 0]],
      [key |-> <<"m", "l", "x">>,
       pricing |-> [input |-> 0, output |-> 0]],
      [key |-> <<"e", "l", "e", "v", "e", "n", "l", "a", "b", "s">>,
       pricing |-> [per_character |-> 1200]]
    >>

RECURSIVE PricingFrom(_, _)
PricingFrom(model_lower, i) ==
    IF i > Len(PRICING) THEN [input |-> 0, output |-> 0]
    ELSE IF IsSubstring(PRICING[i].key, model_lower) THEN PRICING[i].pricing
         ELSE PricingFrom(model_lower, i + 1)

\* _get_pricing(model): the first PRICING key contained in model.lower().
_get_pricing(model) == PricingFrom(Lower(model), 1)

\* estimate_cost(model, input_tokens, output_tokens): a CostEstimate, or the
\* KeyError of pricing["input"] for an entry that has no such key.
estimate_cost(model, input_tokens, output_tokens) ==
    LET pricing == _get_pricing(model)
    IN  IF "input" \notin DOMAIN pricing \/ "output" \notin DOMAIN pricing
        THEN [kind |-> "KeyError"]
        ELSE LET input_cost == input_tokens * pricing.input
                 output_cost == output_tokens * pricing.output
                 total == input_cost + output_cost
             IN  [kind |-> "CostEstimate", input_cost |-> input_cost,
                  output_cost |-> output_cost, total_cost |-> total,
                  currency |-> "USD", model |-> model,
                  breakdown |-> [input_tokens |-> input_tokens,
                                 output_tokens |-> output_tokens,
                                 input_rate |-> pricing.input,
                                 output_rate |-> pricing.output]]

\* f"{x:.4f}": x in ten-thousandths of a dollar (4000 money units), rounded half
\* to even.
Format4(x) ==
    LET q == x \div 4000
        r == x % 4000
    IN  IF r > 2000 \/ (r = 2000 /\ q % 2 = 1) THEN q + 1 ELSE q

\* Comparison that also denies the exact boundary.
CheckAllowedStrict(spent, estimated_cost, limit) == ~(spent + estimated_cost >= limit)

\* Comparison that forgets the estimate of the call.
CheckAllowedIgnoresEstimate(spent, estimated_cost, limit) == ~(spent > limit)

\* check_budget with a limit set: `if self.total_spent + estimated_cost > self.budget_limit`
CheckAllowed(spent, estimated_cost, limit) == ~(spent + estimated_cost > limit)

\* check_budget(estimated_cost): (allowed, reason); the reason is its text kind and,
\* on denial, the formatted remaining headroom.
check_budget(spent, limit, estimated_cost) ==
    IF limit = None
    THEN [allowed |-> TRUE, reason |-> "No budget limit set", remaining |-> None]
    ELSE IF ~CheckAllowed(spent, estimated_cost, limit[1])
         THEN LET remaining == limit[1] - spent
              IN  [allowed |-> FALSE, reason |-> "Would exceed budget. Remaining: $",
                   remaining |-> Some(Format4(remaining))]
         ELSE [allowed |-> TRUE, reason |-> "Within budget", remaining |-> None]

\* Total that is overwritten by the last cost instead of accumulated.
NewTotalOverwrite(spent, estimate) == estimate.total_cost

\* self.total_spent += estimate.total_cost
NewTotal(spent, estimate) == spent + estimate.total_cost

RECURSIVE SumCosts(_)
SumCosts(history) ==
    IF history = << >> THEN 0 ELSE history[1].total_cost + SumCosts(Tail(history))

\* by_model of get_summary: model -> sum of the total_cost of its entries.
ByModel(history) ==
    [mdl \in {history[i].model : i \in 1..Len(history)} |->
        SumCosts(SelectSeq(history, LAMBDA e : e.model = mdl))]

\* get_summary(); `if self.budget_limit` is Python truthiness: None and 0 are falsy.
get_summary(spent, limit, history) ==
    [total_spent |-> spent,
     budget_limit |-> limit,
     remaining |-> IF limit # None /\ limit[1] # 0 THEN Some(limit[1] - spent) ELSE None,
     by_model |-> ByModel(history),
     request_count |-> Len(history)]

Id_gpt_4o == <<"g", "p", "t", "-", "4", "o">>
Id_GPT_4o_mini == <<"G", "P", "T", "-", "4", "o", "-", "m", "i", "n", "i">>
Id_mlx_llama == <<"m", "l", "x", ":", "l", "l", "a", "m", "a", "-", "3", ".", "2", "-", "8", "b">>
Id_whisper == <<"w", "h", "i", "s", "p", "e", "r">>
Id_elevenlabs == <<"e", "l", "e", "v", "e", "n", "l", "a", "b", "s">>

\* The arguments estimate_cost is called with.
ModelIdChoices == {Id_gpt_4o, Id_GPT_4o_mini, Id_mlx_llama, Id_whisper, Id_elevenlabs}
TokenPairChoices == {<<0, 0>>, <<1000, 500>>, <<100000, 20000>>, <<200000, 0>>}

\* The estimates record_cost is called with: 0.45 USD, 0.50 USD, 0.00055 USD, free.
RecordChoices ==
    {estimate_cost(Id_gpt_4o, 100000, 20000), estimate_cost(Id_gpt_4o, 200000, 0),
     estimate_cost(Id_GPT_4o_mini, 100, 30), estimate_cost(Id_mlx_llama, 1000, 500)}

\* The limits set_budget is called with (0 and 1.00 USD) and the amounts
\* check_budget is called with (0, 0.05 USD, 0.10 USD).
LimitChoices == {0, 40000000}
AmountChoices == {0, 2000000, 4000000}

\* record_cost calls in the accountant specification.
MaxRecords == 3

\* estimate_cost(model, input_tokens, output_tokens)
EstimateCost(model, input_tokens, output_tokens) ==
    /\ ret' = [op |-> "estimate_cost",
               result |-> estimate_cost(model, input_tokens, output_tokens)]
    /\ UNCHANGED <<total_spent, budget_limit, spending_history, recorded>>
    /\ UNCHANGED <<routerVars, threadVars>>
    /\ UNCHANGED concVars

\* record_cost(estimate), by a single caller
RecordCost(estimate) ==
    /\ total_spent' = NewTotal(total_spent, estimate)
    /\ spending_history' = Append(spending_history, estimate)
    /\ recorded' = Append(recorded, estimate)
    /\ ret' = [op |-> "record_cost"]
    /\ UNCHANGED <<budget_limit, routerVars, threadVars>>
    /\ UNCHANGED concVars

\* check_budget(estimated_cost)
CheckBudget(estimated_cost) ==
    /\ ret' = [op |-> "check_budget", estimated_cost |-> estimated_cost,
               result |-> check_budget(total_spent, budget_limit, estimated_cost)]
    /\ UNCHANGED <<total_spent, budget_limit, spending_history, recorded>>
    /\ UNCHANGED <<routerVars, threadVars>>
    /\ UNCHANGED concVars

\* set_budget(limit)
SetBudget(limit) ==
    /\ budget_limit' = Some(limit)
    /\ ret' = [op |-> "set_budget"]
    /\ UNCHANGED <<total_spent, spending_history, recorded, routerVars, threadVars>>
    /\ UNCHANGED concVars

\* get_summary()
GetSummary ==
    /\ ret' = [op |-> "get_summary",
               result |-> get_summary(total_spent, budget_limit, spending_history)]
    /\ UNCHANGED <<total_spent, budget_limit, spending_history, recorded>>
    /\ UNCHANGED <<routerVars, threadVars>>
    /\ UNCHANGED concVars

\* A fresh accountant beside a default router.
InitBudget ==
    /\ config = DefaultConfig
    /\ latency_history = [k \in {} |-> << >>]
    /\ arrivals = [k \in {} |-> << >>]
    /\ pc = "idle"
    /\ request = NoRequest
    /\ candidates = << >>
    /\ decision = NoDecision
    /\ AcctInit
    /\ ThreadsInit
    /\ ConcInit

NextBudget ==
    \/ \E mdl \in ModelIdChoices, tp \in TokenPairChoices : EstimateCost(mdl, tp[1], tp[2])
    \/ \E e \in RecordChoices : Len(spending_history) < MaxRecords /\ RecordCost(e)
    \/ \E x \in AmountChoices : CheckBudget(x)
    \/ \E limit \in LimitChoices : SetBudget(limit)
    \/ GetSummary

\* The accountant used by one caller at a time.
SpecBudget == InitBudget /\ [][NextBudget]_vars

(***************************************************************************)
(* CostCalculator under concurrent callers.  The class holds no lock.      *)
(* Each caller follows check_budget(e); dispatch; record_cost(e).          *)
(* `self.total_spent += estimate.total_cost` is a load, an add and a       *)
(* store, and other threads run between them; list.append is one step.     *)
(***************************************************************************)
\* Approved calls in the threads specification.
MaxCalls == 3

InFlight == {t \in Threads : tpc[t] # "idle"}

\* Sum of the estimates of the calls in flight other than thread t's.
OthersInFlight(t) ==
    SumOver([u \in Threads |-> t_est[u].total_cost], InFlight \ {t})

\* check_budget(e.total_cost) by thread t; when allowed the call is dispatched.
T_Check(t, e) ==
    /\ tpc[t] = "idle"
    /\ Len(recorded) + Cardinality(InFlight) < MaxCalls
    /\ IF check_budget(total_spent, budget_limit, e.total_cost).allowed
       THEN /\ tpc' = [tpc EXCEPT ![t] = "dispatched"]
            /\ t_est' = [t_est EXCEPT ![t] = e]
            /\ slack' = Max(slack, OthersInFlight(t))
       ELSE UNCHANGED <<tpc, t_est, slack>>
    /\ UNCHANGED <<t_read, acctVars, routerVars>>
    /\ UNCHANGED concVars

\* record_cost, first half of `+=`: load self.total_spent
T_Load(t) ==
    /\ tpc[t] = "dispatched"
    /\ t_read' = [t_read EXCEPT ![t] = total_spent]
    /\ tpc' = [tpc EXCEPT ![t] = "loaded"]
    /\ UNCHANGED <<t_est, slack, acctVars, routerVars>>
    /\ UNCHANGED concVars

\* record_cost, second half of `+=`: store the sum
T_Store(t) ==
    /\ tpc[t] = "loaded"
    /\ total_spent' = NewTotal(t_read[t], t_est[t])
    /\ tpc' = [tpc EXCEPT ![t] = "stored"]
    /\ UNCHANGED <<t_est, t_read, slack, budget_limit, spending_history, ret, recorded,
                   routerVars>>
    /\ UNCHANGED concVars

\* record_cost: self.spending_history.append(estimate), and the call returns
T_Append(t) ==
    /\ tpc[t] = "stored"
    /\ spending_history' = Append(spending_history, t_est[t])
    /\ recorded' = Append(recorded, t_est[t])
    /\ tpc' = [tpc EXCEPT ![t] = "idle"]
    /\ t_est' = [t_est EXCEPT ![t] = NoEstimate]
    /\ t_read' = [t_read EXCEPT ![t] = 0]
    /\ UNCHANGED <<slack, total_spent, budget_limit, ret, routerVars>>
    /\ UNCHANGED concVars

\* An accountant on which set_budget(limit) has been called, and idle callers.
InitThreads ==
    /\ config = DefaultConfig
    /\ latency_history = [k \in {} |-> << >>]
    /\ arrivals = [k \in {} |-> << >>]
    /\ pc = "idle"
    /\ request = NoRequest
    /\ candidates = << >>
    /\ decision = NoDecision
    /\ total_spent = 0
    /\ budget_limit \in {Some(limit) : limit \in LimitChoices}
    /\ spending_history = << >>
    /\ ret = [op |-> "set_budget"]
    /\ recorded = << >>
    /\ ThreadsInit
    /\ ConcInit

NextThreads ==
    \/ \E t \in Threads, e \in RecordChoices : T_Check(t, e)
    \/ \E t \in Threads : T_Load(t)
    \/ \E t \in Threads : T_Store(t)
    \/ \E t \in Threads : T_Append(t)

SpecThreads == InitThreads /\ [][NextThreads]_vars

(***************************************************************************)
(* Claims about route                                                      *)
(***************************************************************************)
Returned == pc = "returned" /\ decision.kind = "decision"

CandidateKeys == {candidates[i].key : i \in 1..Len(candidates)}

\* The cost cap of the last request, spelled out from the claim: the per-call
\* max_cost when it is not null, otherwise config.max_cost_usd.
RequestCap == IF request.max_cost = None THEN config.max_cost_usd ELSE request.max_cost[1]

\* C1: the model of every returned decision supports the requested task, or it is
\* the configured fallback model.
C1_TaskSupportedOrFallback ==
    Returned =>
        \/ request.task \in MODEL_REGISTRY[decision.model_key].supports
        \/ decision.model_key = config.fallback_model

\* C1 witness: route returned a model that is not the fallback while the registry
\* holds entries that pass every other filter and do not support the task.
C1_Witness ==
    /\ Returned
    /\ decision.model_key # config.fallback_model
    /\ \E k \in KeySet :
          /\ request.task \notin MODEL_REGISTRY[k].supports
          /\ SurvivesNoTaskFilter(config, request, k)

\* C2: the estimated cost of every returned decision is at most the effective cost
\* cap, or the decision is the fallback.
C2_CostWithinCapOrFallback ==
    Returned =>
        \/ decision.estimated_cost <= RequestCap
        \/ decision.model_key = config.fallback_model

\* C2 witness: a paid model was returned under a per-call cap, and another entry
\* was over the cap.
C2_Witness ==
    /\ Returned
    /\ decision.model_key # config.fallback_model
    /\ decision.estimated_cost > 0
    /\ request.max_cost # None
    /\ \E k \in KeySet :
          /\ SurvivesNoCostFilter(config, request, k)
          /\ _calculate_cost(MODEL_REGISTRY[k], request.input_tokens,
                             request.expected_output_tokens) > RequestCap

\* C3 (as claimed): with require_local route never returns a model that is not
\* local, whatever the configured fallback.
C3_RequireLocalReturnsLocal ==
    (Returned /\ request.require_local) => MODEL_REGISTRY[decision.model_key].is_local

\* C4 (as claimed): the input fits the context window of every returned model, the
\* fallback included (the code has no ContextOverflow to raise instead).
C4_InputFitsReturnedContext ==
    Returned => request.input_tokens <= MODEL_REGISTRY[decision.model_key].max_context

\* C10: every survivor's projected cost is at most the per-call max_cost when one is
\* given, zero included, and at most config.max_cost_usd only when max_cost is null;
\* every entry that passes the other filters within that cap survives.
C10_ZeroMaxCostIsBinding ==
    pc = "returned" =>
        /\ \A i \in 1..Len(candidates) : candidates[i].cost <= RequestCap
        /\ request.max_cost = Some(0) =>
              \A i \in 1..Len(candidates) : candidates[i].cost = 0
        /\ \A k \in KeySet :
              (/\ SurvivesNoCostFilter(config, request, k)
               /\ _calculate_cost(MODEL_REGISTRY[k], request.input_tokens,
                                  request.expected_output_tokens) <= RequestCap)
              => k \in CandidateKeys

\* C10 witness: max_cost = 0 under a positive configured cap; a free model survived
\* and a model with a positive projected cost within the configured cap did not.
C10_Witness ==
    /\ pc = "returned"
    /\ request.max_cost = Some(0)
    /\ config.max_cost_usd > 0
    /\ candidates # << >>
    /\ \E k \in KeySet :
          LET cost == _calculate_cost(MODEL_REGISTRY[k], request.input_tokens,
                                      request.expected_output_tokens)
          IN  /\ SurvivesNoCostFilter(config, request, k)
              /\ cost > 0
              /\ cost <= config.max_cost_usd
              /\ k \notin CandidateKeys

(***************************************************************************)
(* Claims about the accountant used by one caller                          *)
(***************************************************************************)
\* C5: with a limit set, check_budget(x) allows exactly when total_spent + x is at
\* most the limit, the boundary included; a denial reports the remaining headroom
\* budget_limit - total_spent (printed with four decimals).
C5_CheckBudgetIffWithinLimit ==
    (ret.op = "check_budget" /\ budget_limit # None) =>
        /\ ret.result.allowed <=> (total_spent + ret.estimated_cost <= budget_limit[1])
        /\ ~ret.result.allowed =>
              ret.result.remaining = Some(Format4(budget_limit[1] - total_spent))

\* C5 witness: the boundary total_spent + x = budget_limit (limit 1.00 USD, 0.95
\* spent, check_budget(0.05)), which is allowed.
C5_Witness ==
    /\ ret.op = "check_budget"
    /\ budget_limit = Some(40000000)
    /\ total_spent = 38000000
    /\ ret.estimated_cost = 2000000
    /\ ret.result.allowed

\* Scenario S5: limit 1.00 USD, 0.95 spent, check_budget(0.10) is denied and the
\* reason reports 0.0500.
S5_Denied ==
    /\ ret.op = "check_budget"
    /\ budget_limit = Some(40000000)
    /\ total_spent = 38000000
    /\ ret.estimated_cost = 4000000
    /\ ~ret.result.allowed
    /\ ret.result.remaining = Some(500)

\* C6: after any sequence of calls on a fresh accountant, get_summary().total_spent
\* is the sum of the total_cost of the estimates record_cost was called with.
C6_RecordCostAdditive ==
    /\ get_summary(total_spent, budget_limit, spending_history).total_spent
          = SumCosts(recorded)
    /\ ret.op = "get_summary" => ret.result.total_spent = SumCosts(recorded)

\* C6 witness: get_summary returned after three records of positive cost, with
\* other calls in between (a limit was set).
C6_Witness ==
    /\ ret.op = "get_summary"
    /\ Len(recorded) = 3
    /\ \A i \in 1..3 : recorded[i].total_cost > 0
    /\ recorded[1] # recorded[2]
    /\ budget_limit # None
    /\ ret.result.total_spent > 0

(***************************************************************************)
(* Claims about the accountant under concurrent callers                    *)
(***************************************************************************)
\* C7: with a limit set and every caller recording only what check_budget allowed,
\* total_spent never exceeds the limit by more than the sum of the estimates of
\* the calls that were in flight together (slack: the largest sum of the other
\* in-flight estimates at an approval); without overlapping calls it never
\* exceeds the limit.
C7_OvershootWithinInFlightSlack ==
    /\ total_spent <= budget_limit[1] + slack
    /\ slack = 0 => total_spent <= budget_limit[1]

\* C7 witness: two overlapping approved calls have been recorded and total_spent
\* is above the limit, by exactly the slack.
C7_Witness ==
    /\ InFlight = {}
    /\ slack > 0
    /\ total_spent > budget_limit[1]
    /\ total_spent = budget_limit[1] + slack

\* C8 (as claimed): once all record_cost calls have completed, total_spent is the
\* sum of all recorded total_cost values and the history holds each recorded
\* estimate once.
C8_NoLostUpdate ==
    InFlight = {} =>
        /\ total_spent = SumCosts(recorded)
        /\ spending_history = recorded

(***************************************************************************)
(* Claims about the latency history                                        *)
(***************************************************************************)
\* The number of samples the estimate for `key` is taken over: min(n, 10).
RecentCount(key) == Min(ArrivalCount(key), 10)

\* Sum of the most recent min(n, 10) samples recorded for `key`.
RecentSum(key) == SumSeq(LastN(arrivals[key], 10))

\* C9 (as claimed): route's estimate for a model with recorded samples is the
\* mean of its most recent min(n, 10) samples.
C9_EstimateIsExactMean ==
    \A k \in KeySet \cap DOMAIN arrivals :
        _get_latency_estimate(latency_history, k, MODEL_REGISTRY[k]) * RecentCount(k)
            = RecentSum(k)

\* The estimate the amended claim states for `key`.
ExpectedLatency(key) ==
    IF ArrivalCount(key) > 0
    THEN TruncDiv(RecentSum(key), RecentCount(key))
    ELSE MODEL_REGISTRY[key].avg_latency_ms

\* C9 (amended): each history holds at most 100 samples, exactly the most recent
\* ones recorded for its model in arrival order; route's estimate for a candidate
\* is the mean of its most recent min(n, 10) samples truncated toward zero to an
\* integer, and the declared avg_latency_ms when nothing was recorded.
C9_HistoryBoundedEstimateTruncatedMean ==
    /\ DOMAIN latency_history = DOMAIN arrivals
    /\ \A k \in DOMAIN arrivals :
          /\ Len(latency_history[k]) <= 100
          /\ Len(latency_history[k]) = Min(Len(arrivals[k]), 100)
          /\ latency_history[k] = LastN(arrivals[k], 100)
    /\ \A k \in KeySet :
          _get_latency_estimate(latency_history, k, MODEL_REGISTRY[k]) = ExpectedLatency(k)
    /\ pc = "returned" =>
          \A i \in 1..Len(candidates) :
              candidates[i].latency = ExpectedLatency(candidates[i].key)
    /\ (Returned /\ ~decision.fallback_path) =>
          decision.estimated_latency_ms = ExpectedLatency(decision.model_key)

\* C9 witness: route returned a model for which more than 100 samples were
\* recorded, so that its history was cut, and whose recent mean is no integer.
C9_Witness ==
    /\ Returned
    /\ ~decision.fallback_path
    /\ ArrivalCount(decision.model_key) > 100
    /\ Len(latency_history[decision.model_key]) = 100
    /\ RecentSum(decision.model_key) % RecentCount(decision.model_key) # 0
    /\ decision.estimated_latency_ms # MODEL_REGISTRY[decision.model_key].avg_latency_ms

(***************************************************************************)
(* Claims about route's quality filter and its choice among survivors      *)
(***************************************************************************)
\* The quality floor as the claim states it: max(require_quality or 0,
\* config.min_quality_score).
ClaimedQualityFloor ==
    Max(IF request.require_quality = None THEN 0 ELSE request.require_quality[1],
        config.min_quality_score)

\* `key` passes the task, local, context and cost tests of the last request.
PassesOtherFilters(key) ==
    LET model == MODEL_REGISTRY[key]
    IN  /\ request.task \in model.supports
        /\ (request.require_local => model.is_local)
        /\ request.input_tokens <= model.max_context
        /\ _calculate_cost(model, request.input_tokens, request.expected_output_tokens)
              <= RequestCap

\* C11: a candidate that passes the other filters survives exactly when its
\* quality_score is at least max(require_quality or 0, config.min_quality_score).
C11_QualityFloorIsMax ==
    pc = "returned" =>
        \A k \in KeySet :
            PassesOtherFilters(k) =>
                (k \in CandidateKeys <=>
                    MODEL_REGISTRY[k].quality_score >= ClaimedQualityFloor)

\* The state C11 fails in: a positive require_quality below the configured minimum
\* let through a model whose quality lies between the two.
C11_BelowMinimumSurvivor ==
    /\ pc = "returned"
    /\ request.require_quality # None
    /\ request.require_quality[1] > 0
    /\ request.require_quality[1] < config.min_quality_score
    /\ \E k \in CandidateKeys :
          /\ MODEL_REGISTRY[k].quality_score >= request.require_quality[1]
          /\ MODEL_REGISTRY[k].quality_score < config.min_quality_score

\* The score of candidate c as the claim states it, in model units (one point is
\* 400000 units): quality * 40, plus 30 for a free candidate and max(0, 30 -
\* cost * 100) otherwise, plus max(0, 20 - latency / 100), plus 10 for a local
\* model when prefer_local is set.
ClaimedScore(c) ==
    LET model == MODEL_REGISTRY[c.key]
    IN  model.quality_score * 160000
        + (IF c.cost = 0 THEN 12000000
           ELSE IF c.cost >= 12000000 THEN 0 ELSE 12000000 - c.cost)
        + (IF c.latency >= 2000 THEN 0 ELSE 8000000 - 4000 * c.latency)
        + (IF config.prefer_local /\ model.is_local THEN 4000000 ELSE 0)

\* The candidate entry of the returned model.
WinnerEntry == CHOOSE c \in {candidates[i] : i \in 1..Len(candidates)} :
                   c.key = decision.model_key

\* C12: when at least one candidate survives, the returned model is a survivor and
\* its score is at least the score of every other survivor; the decision carries
\* that survivor's projected cost and latency estimate.
C12_WinnerHasMaximalScore ==
    (pc = "returned" /\ candidates # << >>) =>
        /\ decision.kind = "decision"
        /\ decision.model_key \in CandidateKeys
        /\ \A i \in 1..Len(candidates) :
              ClaimedScore(WinnerEntry) >= ClaimedScore(candidates[i])
        /\ decision.estimated_cost = WinnerEntry.cost
        /\ decision.estimated_latency_ms = WinnerEntry.latency

\* C12 witness: several survivors with different scores, and the winner is neither
\* the first nor the last of them in registry order.
C12_Witness ==
    /\ Returned
    /\ Len(candidates) >= 3
    /\ decision.model_key # candidates[1].key
    /\ decision.model_key # candidates[Len(candidates)].key
    /\ \A i \in 1..Len(candidates) :
          candidates[i].key # decision.model_key =>
              ClaimedScore(candidates[i]) < ClaimedScore(WinnerEntry)

(***************************************************************************)
(* Latency feedback with equal scores and out-of-range samples: routing    *)
(* of requests that the two llama-3.2-8b entries can both serve, while     *)
(* samples, among them zero and negative ones, are recorded for them.      *)
(***************************************************************************)
MaxFeedback == 3

FeedbackKeys == {"ollama:llama3.2:8b", "mlx:llama-3.2-8b"}
FeedbackSamples == {-50, 0, 50, 2500}

FeedbackConfigSet ==
    {c \in ConfigSet : /\ c.max_cost_usd = DefaultConfig.max_cost_usd
                       /\ c.min_quality_score = DefaultConfig.min_quality_score
                       /\ c.fallback_model = DefaultConfig.fallback_model}

FeedbackRequestSet ==
    [task : {"summarization", "chat"}, input_tokens : {500},
     expected_output_tokens : {500}, require_local : BOOLEAN,
     require_quality : {None}, max_cost : {None}]

InitFeedback ==
    /\ RouterInit
    /\ config \in FeedbackConfigSet
    /\ AcctInit
    /\ ThreadsInit
    /\ ConcInit

NextFeedback ==
    \/ \E req \in FeedbackRequestSet : Route(req)
    \/ Return
    \/ \E k \in FeedbackKeys, ms \in FeedbackSamples :
          TotalArrivals < MaxFeedback /\ RecordLatency(k, ms)

SpecFeedback == InitFeedback /\ [][NextFeedback]_vars

(***************************************************************************)
(* Claims about equal scores and about out-of-range samples                *)
(***************************************************************************)
\* The registry's identifiers in sorted (code point) order.
IdentifierSorted ==
    <<"anthropic:claude-3.5-sonnet", "google:gemini-2.0-flash", "mlx:llama-3.2-8b",
      "ollama:llama3.2:8b", "ollama:qwen2.5-coder:7b", "openai:gpt-4o">>

\* The position of key in the sequence order.
PositionIn(order, key) == CHOOSE i \in 1..Len(order) : order[i] = key

\* The survivors that have the greatest score.
TopKeys ==
    {candidates[i].key : i \in
        {j \in 1..Len(candidates) :
            \A l \in 1..Len(candidates) :
                ClaimedScore(candidates[j]) >= ClaimedScore(candidates[l])}}

\* C13 as stated: when several survivors share the maximal score, route returns
\* the one that comes first in identifier-sorted order.
C13_TieBrokenByIdentifier ==
    (Returned /\ candidates # << >>) =>
        /\ decision.model_key \in TopKeys
        /\ \A k \in TopKeys :
              PositionIn(IdentifierSorted, decision.model_key)
                  <= PositionIn(IdentifierSorted, k)

\* C13 (amended): when several survivors share the maximal score, route returns
\* the one that comes first in the registry's iteration (insertion) order.
C13_TieBrokenByInsertionOrder ==
    (Returned /\ candidates # << >>) =>
        /\ decision.model_key \in TopKeys
        /\ \A k \in TopKeys :
              PositionIn(RegistryKeys, decision.model_key)
                  <= PositionIn(RegistryKeys, k)

\* C13 witness: two survivors share the maximal score, and the one returned is
\* not the one that sorts first by identifier.
C13_Witness ==
    /\ Returned
    /\ Cardinality(TopKeys) >= 2
    /\ \E k \in TopKeys :
          PositionIn(IdentifierSorted, k)
              < PositionIn(IdentifierSorted, decision.model_key)

\* C17: a sample that is zero or negative is never stored: every history holds
\* positive samples only, whatever record_latency was called with.
C17_OutOfRangeSampleIgnored ==
    \A k \in DOMAIN latency_history :
        \A i \in 1..Len(latency_history[k]) : latency_history[k][i] > 0

\* The state C17 fails in: a recorded zero or negative sample is the whole history
\* of a model and route returned that model with the sample as its estimate.
C17_OutOfRangeSampleUsed ==
    /\ Returned
    /\ ~decision.fallback_path
    /\ decision.model_key \in DOMAIN latency_history
    /\ Len(latency_history[decision.model_key]) = 1
    /\ latency_history[decision.model_key][1] <= 0
    /\ decision.estimated_latency_ms = latency_history[decision.model_key][1]

(***************************************************************************)
(* Claims about the fallback branch of route                               *)
(***************************************************************************)
\* route found no survivor for the last request and has returned or raised.
NoSurvivor == pc = "returned" /\ candidates = << >>

\* C14: if no candidate survives filtering, route returns a decision whose
\* model_key is config.fallback_model, whose estimated_cost is zero and whose
\* estimated_latency_ms is the fallback's declared avg_latency_ms, whatever the
\* latency history holds and whether or not the fallback passes the filters.
C14_FallbackDecisionReturned ==
    NoSurvivor =>
        /\ decision.kind = "decision"
        /\ decision.model_key = config.fallback_model
        /\ decision.estimated_cost = 0
        /\ decision.model_key \in KeySet
        /\ decision.estimated_latency_ms = MODEL_REGISTRY[decision.model_key].avg_latency_ms

\* The part of C14 that holds: every decision the fallback branch returns names
\* config.fallback_model with cost zero and the declared avg_latency_ms.
FallbackDecisionShape ==
    (NoSurvivor /\ decision.kind = "decision") =>
        /\ decision.model_key = config.fallback_model
        /\ decision.estimated_cost = 0
        /\ decision.estimated_latency_ms = MODEL_REGISTRY[decision.model_key].avg_latency_ms

\* A state of that part: the fallback was returned although it fails the context
\* filter for the request and its recorded latency differs from the declared one.
FallbackUnfilteredReturned ==
    /\ NoSurvivor
    /\ decision.kind = "decision"
    /\ request.input_tokens > MODEL_REGISTRY[decision.model_key].max_context
    /\ decision.model_key \in DOMAIN latency_history
    /\ _get_latency_estimate(latency_history, decision.model_key,
                             MODEL_REGISTRY[decision.model_key])
          # decision.estimated_latency_ms

\* The state C14 fails in: no survivor, and route raised instead of returning.
C14_FallbackLookupRaised ==
    /\ NoSurvivor
    /\ decision.kind = "KeyError"
    /\ config.fallback_model \notin KeySet

\* C15: if no candidate survives and the fallback model does not support the
\* requested task, route fails with UnknownTask and returns no decision.
C15_UnsupportedFallbackFails ==
    (/\ NoSurvivor
     /\ config.fallback_model \in KeySet
     /\ request.task \notin MODEL_REGISTRY[config.fallback_model].supports)
        => decision.kind = "UnknownTask"

\* The state C15 fails in: the fallback was returned for a task that no registry
\* entry, the fallback included, supports.
C15_UnsupportedFallbackReturned ==
    /\ NoSurvivor
    /\ decision.kind = "decision"
    /\ decision.model_key = config.fallback_model
    /\ \A k \in KeySet : request.task \notin MODEL_REGISTRY[k].supports

\* C16: a fallback identifier that is not a key of the registry is rejected at
\* construction: no router exists with such a config, and no route call fails
\* because the fallback is missing from the registry.
C16_MissingFallbackRejectedAtInit ==
    /\ config.fallback_model \in KeySet
    /\ decision.kind # "KeyError"

\* The state C16 fails in: the router was constructed with a fallback identifier
\* outside the registry, served a request, and a later route call raised KeyError.
C16_RouteFailedOnMissingFallback ==
    /\ config.fallback_model \notin KeySet
    /\ pc = "returned"
    /\ decision.kind = "KeyError"
    /\ decision.fallback_path

(***************************************************************************)
(* route in steps, while another thread replaces the configuration.        *)
(* route holds no lock and takes no copy of self.config: it reads          *)
(* self.config anew at lines 191 and 196 in every iteration of the filter  *)
(* loop, at lines 207 and 209 of the fallback branch and at line 274 for   *)
(* every candidate it scores.  config is a plain attribute of the router;  *)
(* a thread replaces it with one store, `router.config = new_config`.      *)
(* pc takes the positions "cost_filter", "quality_filter",                 *)
(* "fallback_lookup", "fallback_return" and "score" between "idle" and     *)
(* "returned".                                                             *)
(***************************************************************************)
MaxSwaps == 1

SwapConfigSet == {c \in ConfigSet : c.fallback_model \in KeySet}

SwapRequestSet ==
    [task : {"chat", "embedding"}, input_tokens : {500},
     expected_output_tokens : {500}, require_local : {FALSE},
     require_quality : {None}, max_cost : {None}]

InCall == pc \notin {"idle", "returned"}

\* Lines 149-172: the call starts with an empty `candidates`.
BeginRoute(req) ==
    /\ pc = "idle"
    /\ pc' = "cost_filter"
    /\ request' = req
    /\ candidates' = << >>
    /\ decision' = NoDecision
    /\ idx' = 1
    /\ scored' = << >>
    /\ fallback' = ""
    /\ config_seen' = <<config>>
    /\ UNCHANGED <<config, latency_history, arrivals>>
    /\ UNCHANGED <<acctVars, threadVars, analyzerVars, recording>>

\* Lines 174-193 for registry entry idx: the task, local and context tests, the
\* projected cost, and the cost test against the cap read from self.config now.
CostFilter ==
    /\ pc = "cost_filter"
    /\ idx <= Len(RegistryKeys)
    /\ LET model == MODEL_REGISTRY[RegistryKeys[idx]]
           cost == _calculate_cost(model, request.input_tokens,
                                   request.expected_output_tokens)
       IN  IF \/ request.task \notin model.supports
              \/ (request.require_local /\ ~model.is_local)
              \/ request.input_tokens > model.max_context
              \/ cost > EffectiveMaxCost(config, request.max_cost)
           THEN idx' = idx + 1 /\ pc' = "cost_filter"
           ELSE idx' = idx /\ pc' = "quality_filter"
    /\ UNCHANGED <<config, latency_history, arrivals, request, candidates, decision>>
    /\ UNCHANGED <<scored, fallback, config_seen>>
    /\ UNCHANGED <<acctVars, threadVars, analyzerVars, recording>>

\* Lines 195-203 for registry entry idx: the quality test against the floor read
\* from self.config now, the latency estimate, and the append.
QualityFilter ==
    /\ pc = "quality_filter"
    /\ LET key == RegistryKeys[idx]
       IN  candidates' =
             IF MODEL_REGISTRY[key].quality_score < MinQuality(config, request.require_quality)
             THEN candidates
             ELSE Append(candidates, CandidateOf(config, latency_history, request, key))
    /\ idx' = idx + 1
    /\ pc' = "cost_filter"
    /\ UNCHANGED <<config, latency_history, arrivals, request, decision>>
    /\ UNCHANGED <<scored, fallback, config_seen>>
    /\ UNCHANGED <<acctVars, threadVars, analyzerVars, recording>>

\* The filter loop is exhausted; line 205: `if not candidates:`.
FilterDone ==
    /\ pc = "cost_filter"
    /\ idx > Len(RegistryKeys)
    /\ pc' = IF candidates = << >> THEN "fallback_lookup" ELSE "score"
    /\ idx' = 1
    /\ UNCHANGED <<config, latency_history, arrivals, request, candidates, decision>>
    /\ UNCHANGED <<scored, fallback, config_seen>>
    /\ UNCHANGED <<acctVars, threadVars, analyzerVars, recording>>

\* Line 207: fallback = self.model_registry[self.config.fallback_model].
FallbackLookup ==
    /\ pc = "fallback_lookup"
    /\ IF config.fallback_model \in DOMAIN MODEL_REGISTRY
       THEN /\ fallback' = config.fallback_model
            /\ pc' = "fallback_return"
            /\ decision' = decision
       ELSE /\ fallback' = fallback
            /\ pc' = "returned"
            /\ decision' = [NoDecision EXCEPT !.kind = "KeyError", !.fallback_path = TRUE]
    /\ UNCHANGED <<config, latency_history, arrivals, request, candidates>>
    /\ UNCHANGED <<idx, scored, config_seen>>
    /\ UNCHANGED <<acctVars, threadVars, analyzerVars, recording>>

\* Lines 208-214: model_key is read from self.config again; the latency is that
\* of the model looked up at line 207.
FallbackReturn ==
    /\ pc = "fallback_return"
    /\ decision' = [kind |-> "decision", model_key |-> config.fallback_model,
                    estimated_cost |-> 0,
                    estimated_latency_ms |-> MODEL_REGISTRY[fallback].avg_latency_ms,
                    fallback_path |-> TRUE]
    /\ pc' = "returned"
    /\ UNCHANGED <<config, latency_history, arrivals, request, candidates>>
    /\ UNCHANGED stepVars
    /\ UNCHANGED <<acctVars, threadVars, analyzerVars, recording>>

\* Lines 217-220 for candidate idx: _score_model reads self.config.prefer_local.
ScoreCandidate ==
    /\ pc = "score"
    /\ idx <= Len(candidates)
    /\ scored' = Append(scored, ScoreOf(config, candidates[idx]))
    /\ idx' = idx + 1
    /\ UNCHANGED <<config, latency_history, arrivals, pc, request, candidates, decision>>
    /\ UNCHANGED <<fallback, config_seen>>
    /\ UNCHANGED <<acctVars, threadVars, analyzerVars, recording>>

\* The index of the head of `scored` after the stable descending sort.
BestScoredIndex(scores) ==
    CHOOSE i \in 1..Len(scores) :
        /\ \A j \in 1..Len(scores) : scores[i] >= scores[j]
        /\ \A j \in 1..(i - 1) : scores[j] < scores[i]

\* Lines 222-234: sort, take the head, return.
SelectBest ==
    /\ pc = "score"
    /\ idx > Len(candidates)
    /\ LET best == candidates[BestScoredIndex(scored)]
       IN  decision' = [kind |-> "decision", model_key |-> best.key,
                        estimated_cost |-> best.cost,
                        estimated_latency_ms |-> best.latency, fallback_path |-> FALSE]
    /\ pc' = "returned"
    /\ UNCHANGED <<config, latency_history, arrivals, request, candidates>>
    /\ UNCHANGED stepVars
    /\ UNCHANGED <<acctVars, threadVars, analyzerVars, recording>>

\* Another thread stores a new RouterConfig into router.config during the call.
ReplaceConfig(new_config) ==
    /\ InCall
    /\ Len(config_seen) <= MaxSwaps
    /\ new_config # config
    /\ config' = new_config
    /\ config_seen' = Append(config_seen, new_config)
    /\ UNCHANGED <<latency_history, arrivals, pc, request, candidates, decision>>
    /\ UNCHANGED <<idx, scored, fallback>>
    /\ UNCHANGED <<acctVars, threadVars, analyzerVars, recording>>

InitSwap ==
    /\ RouterInit
    /\ config \in SwapConfigSet
    /\ AcctInit
    /\ ThreadsInit
    /\ ConcInit

NextSwap ==
    \/ \E req \in SwapRequestSet : BeginRoute(req)
    \/ CostFilter
    \/ QualityFilter
    \/ FilterDone
    \/ FallbackLookup
    \/ FallbackReturn
    \/ ScoreCandidate
    \/ SelectBest
    \/ Return
    \/ \E c \in SwapConfigSet : ReplaceConfig(c)

SpecSwap == InitSwap /\ [][NextSwap]_vars

(***************************************************************************)
(* Claim about route and a concurrent replacement of the configuration     *)
(***************************************************************************)
\* What route returns for the last request when self.config is cfg throughout.
DecisionUnder(cfg) == RouteResult(cfg, Candidates(cfg, latency_history, request))

\* C18: the decision of a route call during which the config was replaced equals
\* the decision under the old config alone or under the new config alone.
C18_DecisionUnderOneConfig ==
    pc = "returned" =>
        \E i \in 1..Len(config_seen) : decision = DecisionUnder(config_seen[i])

\* A route call during which the config was not replaced returns what the
\* one-step Route returns.
StepsAgreeWithRoute ==
    (pc = "returned" /\ Len(config_seen) = 1) =>
        /\ decision = DecisionUnder(config_seen[1])
        /\ candidates = Candidates(config_seen[1], latency_history, request)

\* The state C18 fails in: the decision names the new config's fallback model
\* with the declared latency of the old config's fallback model.
C18_TornFallbackDecision ==
    /\ pc = "returned"
    /\ Len(config_seen) = 2
    /\ decision.fallback_path
    /\ decision.model_key = config_seen[2].fallback_model
    /\ decision.model_key # config_seen[1].fallback_model
    /\ decision.estimated_latency_ms
          = MODEL_REGISTRY[config_seen[1].fallback_model].avg_latency_ms
    /\ decision.estimated_latency_ms
          # MODEL_REGISTRY[decision.model_key].avg_latency_ms

\* Another state C18 fails in: the winner among survivors is the winner under
\* neither config.
C18_TornSelection ==
    /\ pc = "returned"
    /\ Len(config_seen) = 2
    /\ ~decision.fallback_path
    /\ decision.kind = "decision"
    /\ \A i \in 1..2 : decision.model_key # DecisionUnder(config_seen[i]).model_key

(***************************************************************************)
(* TokenAnalyzer: the tokenizer caches under concurrent count_tokens       *)
(* calls.  The analyzer holds no lock.  Each thread makes one call; the    *)
(* steps are the branch selection of count_tokens, the membership test of  *)
(* the cache, the constructor call, the store into the cache, and the      *)
(* lookup for encode.  The token count itself is not part of this model.   *)
(***************************************************************************)
Id_ollama_llama == <<"o", "l", "l", "a", "m", "a", ":", "l", "l", "a", "m", "a",
                     "3", ".", "2", ":", "8", "b">>
Id_claude == <<"c", "l", "a", "u", "d", "e", "-", "3", "-", "5", "-",
               "s", "o", "n", "n", "e", "t">>

\* The models count_tokens is called with.
CountModelChoices ==
    {Id_gpt_4o, Id_GPT_4o_mini, Id_mlx_llama, Id_ollama_llama, Id_claude, Id_whisper}

Key_gpt == <<"g", "p", "t">>
Key_openai == <<"o", "p", "e", "n", "a", "i">>
Key_llama == <<"l", "l", "a", "m", "a">>
Key_claude == <<"c", "l", "a", "u", "d", "e">>
Key_gpt_4 == <<"g", "p", "t", "-", "4">>

\* The branch count_tokens takes for `model`: which cache it uses and under which
\* key; family "" is the character estimate, which uses no tokenizer.
BranchOf(model) ==
    IF IsSubstring(Key_gpt, Lower(model)) \/ IsSubstring(Key_openai, Lower(model))
    THEN [family |-> "tiktoken", key |-> model, method |-> "tiktoken"]
    ELSE IF IsSubstring(Key_llama, Lower(model))
    THEN [family |-> "llama", key |-> Key_llama, method |-> "llama-tokenizer"]
    ELSE IF IsSubstring(Key_claude, Lower(model))
    THEN [family |-> "tiktoken", key |-> Key_gpt_4, method |-> "tiktoken-approximation"]
    ELSE [family |-> "", key |-> << >>, method |-> "character-estimate"]

\* The cache a call of the given family works on.
CacheOf(family) == IF family = "llama" THEN _tokenizers ELSE _tiktoken_encodings

\* dict[key] = value
Stored(cache, key, value) ==
    [k \in DOMAIN cache \cup {key} |-> IF k = key THEN value ELSE cache[k]]

\* A payload: a string of `chars` characters, or a list of chat messages, each
\* given by the lengths of its role and of its content.
Text(n) == [is_list |-> FALSE, chars |-> n, messages |-> << >>]
Messages(msgs) == [is_list |-> TRUE, chars |-> 0, messages |-> msgs]

\* len(_messages_to_text(messages)): the parts f"{role}: {content}" joined by "\n".
RECURSIVE PartsLength(_)
PartsLength(msgs) ==
    IF msgs = << >> THEN 0
    ELSE msgs[1].role + 2 + msgs[1].content + PartsLength(Tail(msgs))

FlatLength(payload) ==
    IF payload.is_list
    THEN PartsLength(payload.messages)
         + (IF Len(payload.messages) > 0 THEN Len(payload.messages) - 1 ELSE 0)
    ELSE payload.chars

\* A heuristic that rounds up.
CharacterEstimateRoundedUp(chars) == (chars + 3) \div 4

\* len(text) // 4
CharacterEstimate(chars) == chars \div 4

\* TokenCount(input_tokens=count, estimated_output_tokens=min(count // 2, 2000),
\*            total_tokens=count + estimated_output, method=method)
TokenCount(count, method) ==
    [input_tokens |-> count,
     estimated_output_tokens |-> Min(count \div 2, 2000),
     total_tokens |-> count + Min(count \div 2, 2000),
     method |-> method]

\* What a tokenizer can return for a text of `chars` characters: no token for the
\* empty text, otherwise between one token and one token per character.
EncodedLengths(chars) == IF chars = 0 THEN {0} ELSE {1, chars}

\* count_tokens(text, model) is entered by thread t, flattens a list of messages
\* and selects its branch; the character estimate returns at once.
CountTokens(t, model, payload) ==
    /\ counting[t].at = "idle"
    /\ LET b == BranchOf(model)
           n == FlatLength(payload)
       IN  counting' = [counting EXCEPT ![t] =
               [at |-> IF b.family = "" THEN "returned" ELSE "check",
                key |-> b.key, family |-> b.family, instance |-> 0,
                chars |-> n, method |-> b.method, failed |-> FALSE,
                result |-> IF b.family = ""
                           THEN TokenCount(CharacterEstimate(n), b.method)
                           ELSE NoTokenCount]]
    /\ UNCHANGED <<_tokenizers, _tiktoken_encodings, built>>
    /\ UNCHANGED <<routerVars, acctVars, threadVars, stepVars, recording>>

\* `if model not in self._tiktoken_encodings:` / `if "llama" not in
\* self._tokenizers:`
CheckCache(t) ==
    /\ counting[t].at = "check"
    /\ counting' = [counting EXCEPT ![t].at =
           IF counting[t].key \in DOMAIN CacheOf(counting[t].family)
           THEN "encode" ELSE "construct"]
    /\ UNCHANGED <<_tokenizers, _tiktoken_encodings, built>>
    /\ UNCHANGED <<routerVars, acctVars, threadVars, stepVars, recording>>

\* tiktoken.encoding_for_model(model) (or get_encoding) /
\* AutoTokenizer.from_pretrained(...) returns a tokenizer.
Construct(t) ==
    /\ counting[t].at = "construct"
    /\ built' = Append(built, counting[t].family)
    /\ counting' = [counting EXCEPT ![t].at = "store", ![t].instance = Len(built) + 1]
    /\ UNCHANGED <<_tokenizers, _tiktoken_encodings>>
    /\ UNCHANGED <<routerVars, acctVars, threadVars, stepVars, recording>>

\* What count_tokens returns after `except Exception: return len(text) // 4` in
\* _count_tiktoken or _count_llama: the method is the one chosen with the branch.
Degraded(c) ==
    [c EXCEPT !.at = "returned", !.failed = TRUE,
              !.result = TokenCount(CharacterEstimate(c.chars), c.method)]

\* The constructor raises.
ConstructFails(t) ==
    /\ counting[t].at = "construct"
    /\ counting' = [counting EXCEPT ![t] = Degraded(counting[t])]
    /\ UNCHANGED <<_tokenizers, _tiktoken_encodings, built>>
    /\ UNCHANGED <<routerVars, acctVars, threadVars, stepVars, recording>>

\* self._tiktoken_encodings[model] = ... / self._tokenizers["llama"] = ...
StoreTokenizer(t) ==
    /\ counting[t].at = "store"
    /\ IF counting[t].family = "llama"
       THEN /\ _tokenizers' = Stored(_tokenizers, counting[t].key, counting[t].instance)
            /\ UNCHANGED _tiktoken_encodings
       ELSE /\ _tiktoken_encodings' =
                  Stored(_tiktoken_encodings, counting[t].key, counting[t].instance)
            /\ UNCHANGED _tokenizers
    /\ counting' = [counting EXCEPT ![t].at = "encode"]
    /\ UNCHANGED built
    /\ UNCHANGED <<routerVars, acctVars, threadVars, stepVars, recording>>

\* len(cache[key].encode(text)): the tokenizer now in the cache is used.
Encode(t) ==
    /\ counting[t].at = "encode"
    /\ \E n \in EncodedLengths(counting[t].chars) :
          counting' = [counting EXCEPT
              ![t].at = "returned",
              ![t].instance = CacheOf(counting[t].family)[counting[t].key],
              ![t].result = TokenCount(n, counting[t].method)]
    /\ UNCHANGED <<_tokenizers, _tiktoken_encodings, built>>
    /\ UNCHANGED <<routerVars, acctVars, threadVars, stepVars, recording>>

\* encode raises.
EncodeFails(t) ==
    /\ counting[t].at = "encode"
    /\ counting' = [counting EXCEPT ![t] = Degraded(counting[t])]
    /\ UNCHANGED <<_tokenizers, _tiktoken_encodings, built>>
    /\ UNCHANGED <<routerVars, acctVars, threadVars, stepVars, recording>>

InitTokenizers ==
    /\ RouterInit
    /\ config = DefaultConfig
    /\ AcctInit
    /\ ThreadsInit
    /\ ConcInit

NextTokenizers ==
    \/ \E t \in Threads, model \in CountModelChoices : CountTokens(t, model, Text(5))
    \/ \E t \in Threads : CheckCache(t)
    \/ \E t \in Threads : Construct(t)
    \/ \E t \in Threads : ConstructFails(t)
    \/ \E t \in Threads : StoreTokenizer(t)
    \/ \E t \in Threads : Encode(t)
    \/ \E t \in Threads : EncodeFails(t)

SpecTokenizers == InitTokenizers /\ [][NextTokenizers]_vars

(***************************************************************************)
(* Claim about the tokenizer caches                                        *)
(***************************************************************************)
\* Constructor calls made for the family so far.
BuiltFor(family) == Cardinality({i \in 1..Len(built) : built[i] = family})

\* The model identifiers of the OpenAI family among the keys of the encodings cache.
OpenAIModelKeys ==
    {k \in DOMAIN _tiktoken_encodings :
        k \in CountModelChoices /\ BranchOf(k).family = "tiktoken"}

\* C19: under concurrent first use of a tokenizer family at most one tokenizer is
\* constructed for it (here: the Llama tokenizer, whose constructor returns a new
\* object on every call), and the caches hold one entry per family, not one per
\* model identifier.
C19_OneTokenizerPerFamily ==
    /\ BuiltFor("llama") <= 1
    /\ Cardinality(DOMAIN _tokenizers) <= 1
    /\ Cardinality(OpenAIModelKeys) <= 1

\* A state C19 fails in: two threads counted for Llama models at the same time,
\* both constructed a tokenizer, and each used a different instance or the
\* second store replaced the first.
C19_TwoLlamaTokenizersBuilt ==
    /\ BuiltFor("llama") = 2
    /\ \A t \in {1, 2} : counting[t].family = "llama" /\ counting[t].at = "returned"
    /\ Cardinality(DOMAIN _tokenizers) = 1

\* Another state C19 fails in: the encodings cache holds one entry for each of
\* two model identifiers of the OpenAI family.
C19_EntryPerModelId ==
    /\ Id_gpt_4o \in DOMAIN _tiktoken_encodings
    /\ Id_GPT_4o_mini \in DOMAIN _tiktoken_encodings

(***************************************************************************)
(* record_latency in steps under concurrent callers.  The router holds no  *)
(* lock: the membership test (line 297), the store of the empty list       *)
(* (298), the append (299), the length test (301), the slice and the       *)
(* store of the slice (302) are separate steps of each call.  Each thread  *)
(* makes one call.  A model's history is absent at first or holds          *)
(* LatencyCap samples that earlier calls recorded.                         *)
(***************************************************************************)
RecorderKeys == {"mlx:llama-3.2-8b", "openai:gpt-4o"}

\* The sample thread t records.
SampleOf(t) == 1000 + t

FullHistory == [i \in 1..LatencyCap |-> 100 + 2 * i]

\* record_latency(model_key, SampleOf(t)) is entered by thread t; line 297:
\* `if model_key not in self._latency_history`.
RL_Test(t, model_key) ==
    /\ recording[t].at = "idle"
    /\ recording' = [recording EXCEPT ![t] =
           [at |-> IF model_key \in DOMAIN latency_history THEN "append" ELSE "create",
            model_key |-> model_key, latency_ms |-> SampleOf(t), slice |-> << >>]]
    /\ arrivals' =
         [k \in DOMAIN arrivals \cup {model_key} |->
            IF k = model_key
            THEN Append(IF k \in DOMAIN arrivals THEN arrivals[k] ELSE << >>, SampleOf(t))
            ELSE arrivals[k]]
    /\ UNCHANGED <<config, latency_history, pc, request, candidates, decision>>
    /\ UNCHANGED <<acctVars, threadVars, stepVars, analyzerVars>>

\* Line 298: self._latency_history[model_key] = [].
RL_Create(t) ==
    /\ recording[t].at = "create"
    /\ latency_history' =
         [k \in DOMAIN latency_history \cup {recording[t].model_key} |->
            IF k = recording[t].model_key THEN << >> ELSE latency_history[k]]
    /\ recording' = [recording EXCEPT ![t].at = "append"]
    /\ UNCHANGED <<config, arrivals, pc, request, candidates, decision>>
    /\ UNCHANGED <<acctVars, threadVars, stepVars, analyzerVars>>

\* Line 299: self._latency_history[model_key].append(latency_ms).
RL_Append(t) ==
    /\ recording[t].at = "append"
    /\ latency_history' =
         [latency_history EXCEPT ![recording[t].model_key] =
             Append(@, recording[t].latency_ms)]
    /\ recording' = [recording EXCEPT ![t].at = "length"]
    /\ UNCHANGED <<config, arrivals, pc, request, candidates, decision>>
    /\ UNCHANGED <<acctVars, threadVars, stepVars, analyzerVars>>

\* Lines 301-302: the length test and, when it succeeds, the slice [-100:].
RL_Slice(t) ==
    /\ recording[t].at = "length"
    /\ LET h == latency_history[recording[t].model_key]
       IN  recording' = [recording EXCEPT
               ![t].at = IF Len(h) > LatencyCap THEN "store" ELSE "returned",
               ![t].slice = IF Len(h) > LatencyCap THEN LastN(h, LatencyCap) ELSE << >>]
    /\ UNCHANGED <<config, latency_history, arrivals, pc, request, candidates, decision>>
    /\ UNCHANGED <<acctVars, threadVars, stepVars, analyzerVars>>

\* Line 302: the store of the slice into self._latency_history[model_key].
RL_Store(t) ==
    /\ recording[t].at = "store"
    /\ latency_history' =
         [latency_history EXCEPT ![recording[t].model_key] = recording[t].slice]
    /\ recording' = [recording EXCEPT ![t].at = "returned", ![t].slice = << >>]
    /\ UNCHANGED <<config, arrivals, pc, request, candidates, decision>>
    /\ UNCHANGED <<acctVars, threadVars, stepVars, analyzerVars>>

InitRecorders ==
    /\ config \in FeedbackConfigSet
    /\ \E D \in SUBSET RecorderKeys :
          /\ latency_history = [k \in D |-> FullHistory]
          /\ arrivals = [k \in D |-> FullHistory]
    /\ pc = "idle"
    /\ request = NoRequest
    /\ candidates = << >>
    /\ decision = NoDecision
    /\ AcctInit
    /\ ThreadsInit
    /\ ConcInit

NextRecorders ==
    \/ \E t \in Threads, k \in RecorderKeys : RL_Test(t, k)
    \/ \E t \in Threads : RL_Create(t)
    \/ \E t \in Threads : RL_Append(t)
    \/ \E t \in Threads : RL_Slice(t)
    \/ \E t \in Threads : RL_Store(t)

SpecRecorders == InitRecorders /\ [][NextRecorders]_vars

(***************************************************************************)
(* Claim about concurrent record_latency calls                             *)
(***************************************************************************)
AllRecorded == \A t \in Threads : recording[t].at = "returned"

\* The samples of history that this run's calls recorded.
RunSamplesIn(history) ==
    {i \in 1..Len(history) : \E t \in Threads : history[i] = SampleOf(t)}

\* C20: when all concurrent record_latency calls have completed, no sample is
\* lost: each model's history holds every sample recorded for it, up to the
\* LatencyCap most recent ones, and every sample recorded by this run's calls,
\* which are fewer than LatencyCap.
C20_NoSampleLost ==
    AllRecorded =>
        \A k \in DOMAIN arrivals :
            /\ k \in DOMAIN latency_history
            /\ Len(latency_history[k]) = Min(Len(arrivals[k]), LatencyCap)
            /\ \A t \in Threads :
                  recording[t].model_key = k =>
                      \E i \in 1..Len(latency_history[k]) :
                          latency_history[k][i] = SampleOf(t)

\* A state C20 fails in: two threads recorded the first samples of one model,
\* both calls completed, and the history holds one sample.
C20_FirstSampleLost ==
    /\ AllRecorded
    /\ \E k \in RecorderKeys :
          /\ \A t \in Threads : recording[t].model_key = k
          /\ Len(arrivals[k]) = NThreads
          /\ Len(latency_history[k]) = 1

\* Another state C20 fails in: two threads recorded for a model with a full
\* history, and a sample appended during the other call's truncation is gone.
C20_SampleLostAtTruncation ==
    /\ AllRecorded
    /\ \E k \in RecorderKeys :
          /\ \A t \in Threads : recording[t].model_key = k
          /\ Len(arrivals[k]) = LatencyCap + NThreads
          /\ Len(latency_history[k]) = LatencyCap
          /\ Cardinality(RunSamplesIn(latency_history[k])) < NThreads

(***************************************************************************)
(* Routing scenarios on the default registry: requests with an expected    *)
(* output of 200 tokens, with and without a quality requirement, while     *)
(* latencies are recorded for the two fastest local models.                *)
(***************************************************************************)
MaxScenarioRecords == 2

ScenarioKeys == {"mlx:llama-3.2-8b", "ollama:qwen2.5-coder:7b"}
ScenarioSamples == {20, 60}

ScenarioRequestSet ==
    [task : {"chat", "creative_writing"}, input_tokens : {500, 1000},
     expected_output_tokens : {200}, require_local : {FALSE},
     require_quality : {None, Some(94)}, max_cost : {None}]

InitScenarios ==
    /\ RouterInit
    /\ config \in FeedbackConfigSet
    /\ AcctInit
    /\ ThreadsInit
    /\ ConcInit

NextScenarios ==
    \/ \E req \in ScenarioRequestSet : Route(req)
    \/ Return
    \/ \E k \in ScenarioKeys, ms \in ScenarioSamples :
          TotalArrivals < MaxScenarioRecords /\ RecordLatency(k, ms)

SpecScenarios == InitScenarios /\ [][NextScenarios]_vars

(***************************************************************************)
(* Claim about scenario S1                                                 *)
(***************************************************************************)
\* route(task=chat, input_tokens=500, expected_output_tokens=200), no constraints.
S1_Request ==
    [task |-> "chat", input_tokens |-> 500, expected_output_tokens |-> 200,
     require_local |-> FALSE, require_quality |-> None, max_cost |-> None]

\* Scenario S1 has returned: default config, empty latency history.
S1_Returned ==
    /\ pc = "returned"
    /\ request = S1_Request
    /\ config = DefaultConfig
    /\ DOMAIN latency_history = {}

\* C21 as stated: scenario S1 selects the local MLX model mlx:llama-3.2-8b.
C21_S1SelectsMLX ==
    S1_Returned =>
        /\ decision.kind = "decision"
        /\ decision.model_key = "mlx:llama-3.2-8b"

\* C21 (amended): scenario S1 selects the local model ollama:qwen2.5-coder:7b, at
\* zero cost, as the candidate with the highest score (93.55 points);
\* mlx:llama-3.2-8b is a survivor with a lower score (92.5 points).
C21_S1SelectsLocalQwen ==
    S1_Returned =>
        /\ decision.kind = "decision"
        /\ decision.model_key = "ollama:qwen2.5-coder:7b"
        /\ MODEL_REGISTRY[decision.model_key].is_local
        /\ decision.estimated_cost = 0
        /\ ClaimedScore(WinnerEntry) = 37420000
        /\ \E i \in 1..Len(candidates) :
              /\ candidates[i].key = "mlx:llama-3.2-8b"
              /\ ClaimedScore(candidates[i]) = 37000000

\* C21 witness: scenario S1 returned a decision, with all six registry entries
\* among the survivors.
C21_Witness ==
    /\ S1_Returned
    /\ Returned
    /\ ~decision.fallback_path
    /\ Len(candidates) = 6

(***************************************************************************)
(* One caller's route calls in steps, with no other thread: every step of  *)
(* a call that is enabled is eventually taken (the interpreter keeps       *)
(* running the call; route waits for nothing).                             *)
(***************************************************************************)
LiveConfigSet ==
    {c \in ConfigSet : /\ c.max_cost_usd = DefaultConfig.max_cost_usd
                       /\ c.min_quality_score = DefaultConfig.min_quality_score}

LiveRequestSet ==
    [task : {"chat", "embedding"}, input_tokens : {500, 2000000},
     expected_output_tokens : {500}, require_local : BOOLEAN,
     require_quality : {None}, max_cost : {None}]

\* One step of the route call in progress.
RouteStep ==
    \/ CostFilter
    \/ QualityFilter
    \/ FilterDone
    \/ FallbackLookup
    \/ FallbackReturn
    \/ ScoreCandidate
    \/ SelectBest

InitLive ==
    /\ RouterInit
    /\ config \in LiveConfigSet
    /\ AcctInit
    /\ ThreadsInit
    /\ ConcInit

NextLive ==
    \/ \E req \in LiveRequestSet : BeginRoute(req)
    \/ CostFilter
    \/ QualityFilter
    \/ FilterDone
    \/ FallbackLookup
    \/ FallbackReturn
    \/ ScoreCandidate
    \/ SelectBest
    \/ Return

SpecLive == InitLive /\ [][NextLive]_vars /\ WF_vars(RouteStep)

(***************************************************************************)
(* Claim about the end of every route call                                 *)
(***************************************************************************)
\* Every route call terminates: it returns or raises.
RouteTerminates == InCall ~> (pc = "returned")

\* The call ended decided (a survivor was scored and selected) or fallen-back (no
\* entry survived), with a decision.
EndedDecidedOrFallenBack ==
    /\ decision.kind = "decision"
    /\ decision.fallback_path <=> (candidates = << >>)
    /\ ~decision.fallback_path =>
          /\ Len(scored) = Len(candidates)
          /\ decision.model_key \in CandidateKeys

\* C22: every route call terminates, and it ends fallen-back if and only if no
\* registry entry survived filtering and decided otherwise; no call ends without
\* a decision.
C22_EveryCallEndsDecidedOrFallenBack ==
    /\ InCall ~> (pc = "returned")
    /\ [](pc = "returned" => EndedDecidedOrFallenBack)

\* What holds of C22: every call terminates, and every call of a router whose
\* fallback is in the registry ends decided or fallen-back.
EndsProperlyWithKnownFallback ==
    /\ InCall ~> (pc = "returned")
    /\ []((pc = "returned" /\ config.fallback_model \in KeySet)
            => EndedDecidedOrFallenBack)

\* The state C22 fails in: the call ended with a KeyError, which is neither a
\* decision nor an error kind of the request state machine.
C22_CallEndedWithKeyError ==
    /\ pc = "returned"
    /\ candidates = << >>
    /\ decision.kind = "KeyError"


(***************************************************************************)
(* count_tokens called by one caller, call after call, with payloads of    *)
(* several lengths and tokenizers that may fail to load or to encode.      *)
(***************************************************************************)

\* The one caller of this specification.
Caller == CHOOSE t \in Threads : TRUE

\* Strings of 0, 5 and 8 characters; [{"role": "user", "content": "abc"}]; the
\* same followed by a message of role "assistant" and empty content; no message.
PayloadChoices ==
    {Text(0), Text(5), Text(8),
     Messages(<< >>),
     Messages(<<[role |-> 4, content |-> 3]>>),
     Messages(<<[role |-> 4, content |-> 3], [role |-> 9, content |-> 0]>>)}

\* `return TokenCount(...)`: the caller has its result and may call again.
Finish(t) ==
    /\ counting[t].at = "returned"
    /\ counting' = [counting EXCEPT ![t] = NotCounting]
    /\ UNCHANGED <<_tokenizers, _tiktoken_encodings, built>>
    /\ UNCHANGED <<routerVars, acctVars, threadVars, stepVars, recording>>

InitCount == InitTokenizers

NextCount ==
    \/ \E model \in CountModelChoices, payload \in PayloadChoices :
          CountTokens(Caller, model, payload)
    \/ CheckCache(Caller)
    \/ Construct(Caller)
    \/ ConstructFails(Caller)
    \/ StoreTokenizer(Caller)
    \/ Encode(Caller)
    \/ EncodeFails(Caller)
    \/ Finish(Caller)

SpecCount == InitCount /\ [][NextCount]_vars

\* The tag of the character estimate.
EstimateTag == "character-estimate"

\* C23: when the tokenizer of the selected family fails, to load or to encode,
\* count_tokens returns the character heuristic of the payload as input_tokens
\* (rounded either way) and a method tag that reports the estimate, not the tag
\* of the tokenizer that failed.
C23_FailureReportsEstimate ==
    \A t \in Threads :
        (counting[t].at = "returned" /\ counting[t].failed) =>
            /\ counting[t].result.input_tokens \in
                  {counting[t].chars \div 4, (counting[t].chars + 3) \div 4}
            /\ counting[t].result.method = EstimateTag

\* What the code does on a failure: the count is the estimate, the tag is the
\* tag of the tokenizer that failed.
C23_FailureKeepsTokenizerTag ==
    \A t \in Threads :
        (counting[t].at = "returned" /\ counting[t].failed) =>
            /\ counting[t].result.input_tokens = counting[t].chars \div 4
            /\ counting[t].result.method \in
                  {"tiktoken", "llama-tokenizer", "tiktoken-approximation"}

\* A call whose tokenizer failed has returned.
C23_FailedCallReturned ==
    \E t \in Threads :
        /\ counting[t].at = "returned"
        /\ counting[t].failed
        /\ counting[t].chars = 5

\* C27 as stated: for a model of no known family input_tokens is the number of
\* characters of the flattened payload divided by 4 and rounded up.
C27_UnmatchedFamilyRoundsUp ==
    \A t \in Threads :
        (counting[t].at = "returned" /\ counting[t].family = "") =>
            counting[t].result.input_tokens = (counting[t].chars + 3) \div 4

\* C27: for a model of no known family input_tokens is the number of characters
\* of the flattened payload divided by 4 and rounded down, for every length,
\* and the method is the character estimate.
C27_UnmatchedFamilyRoundsDown ==
    \A t \in Threads :
        (counting[t].at = "returned" /\ counting[t].family = "") =>
            /\ counting[t].result.input_tokens * 4 <= counting[t].chars
            /\ counting[t].chars < (counting[t].result.input_tokens + 1) * 4
            /\ counting[t].result.method = EstimateTag

\* A model of no known family was counted on a list of two messages, 21
\* characters once flattened, and 5 tokens were returned.
C27_Witness ==
    /\ counting[Caller].at = "returned"
    /\ counting[Caller].family = ""
    /\ counting[Caller].chars = 21
    /\ counting[Caller].result.input_tokens = 5


(***************************************************************************)
(* estimate_cost on every identifier, and against the router's costing.    *)
(***************************************************************************)

\* The PRICING entries whose key is contained in model.lower(), by position.
MatchingEntries(model) ==
    {i \in 1..Len(PRICING) : IsSubstring(PRICING[i].key, Lower(model))}

\* C24: estimate_cost returns a CostEstimate for every model identifier and
\* never raises; the rates are those of the first PRICING key contained in the
\* lowercased identifier, and an identifier that matches no key costs zero.
C24_EstimateCostIsTotal ==
    ret.op = "estimate_cost" =>
        /\ ret.result.kind = "CostEstimate"
        /\ LET r == ret.result
               matching == MatchingEntries(r.model)
           IN  IF matching = {}
               THEN r.total_cost = 0
               ELSE LET first == CHOOSE i \in matching : \A j \in matching : i <= j
                    IN  /\ r.breakdown.input_rate = PRICING[first].pricing.input
                        /\ r.breakdown.output_rate = PRICING[first].pricing.output
                        /\ r.total_cost = r.breakdown.input_tokens * r.breakdown.input_rate
                                          + r.breakdown.output_tokens * r.breakdown.output_rate

\* What the code does: whenever estimate_cost returns, the estimate is as C24
\* says.
C24_ReturnedEstimatesAreRight ==
    (ret.op = "estimate_cost" /\ ret.result.kind = "CostEstimate") =>
        LET r == ret.result
            matching == MatchingEntries(r.model)
        IN  IF matching = {}
            THEN r.total_cost = 0
            ELSE LET first == CHOOSE i \in matching : \A j \in matching : i <= j
                 IN  /\ r.breakdown.input_rate = PRICING[first].pricing.input
                     /\ r.breakdown.output_rate = PRICING[first].pricing.output

\* estimate_cost has raised KeyError.
C24_EstimateCostRaised ==
    /\ ret.op = "estimate_cost"
    /\ ret.result.kind = "KeyError"

\* The keys of MODEL_REGISTRY as the strings estimate_cost searches.
KeyChars ==
    [k \in KeySet |->
       CASE k = "ollama:llama3.2:8b" -> Id_ollama_llama
         [] k = "ollama:qwen2.5-coder:7b" ->
              <<"o", "l", "l", "a", "m", "a", ":", "q", "w", "e", "n", "2", ".", "5",
                "-", "c", "o", "d", "e", "r", ":", "7", "b">>
         [] k = "mlx:llama-3.2-8b" -> Id_mlx_llama
         [] k = "openai:gpt-4o" ->
              <<"o", "p", "e", "n", "a", "i", ":", "g", "p", "t", "-", "4", "o">>
         [] k = "anthropic:claude-3.5-sonnet" ->
              <<"a", "n", "t", "h", "r", "o", "p", "i", "c", ":", "c", "l", "a", "u",
                "d", "e", "-", "3", ".", "5", "-", "s", "o", "n", "n", "e", "t">>
         [] k = "google:gemini-2.0-flash" ->
              <<"g", "o", "o", "g", "l", "e", ":", "g", "e", "m", "i", "n", "i", "-",
                "2", ".", "0", "-", "f", "l", "a", "s", "h">>]

\* total_cost of estimate_cost(key, input_tokens, expected_output_tokens) for the
\* request in progress.
AccountantCost(key) ==
    estimate_cost(KeyChars[key], request.input_tokens,
                  request.expected_output_tokens).total_cost

\* C25: the cost the router uses for each candidate of a call equals the
\* total_cost the accountant's estimate_cost gives for the candidate's registry
\* key and the call's token counts.
C25_RouterCostIsAccountantCost ==
    pc = "returned" =>
        \A i \in 1..Len(candidates) : candidates[i].cost = AccountantCost(candidates[i].key)

\* The two costs agree for every candidate but the Anthropic entry.
C25_CostsAgreeExceptAnthropic ==
    pc = "returned" =>
        \A i \in 1..Len(candidates) :
            candidates[i].key # "anthropic:claude-3.5-sonnet" =>
                candidates[i].cost = AccountantCost(candidates[i].key)

\* The router costed the Anthropic entry at its registry rates while the
\* accountant prices the same key at zero.
C25_AnthropicCostedAtZero ==
    /\ pc = "returned"
    /\ \E i \in 1..Len(candidates) :
          /\ candidates[i].key = "anthropic:claude-3.5-sonnet"
          /\ candidates[i].cost > 0
          /\ AccountantCost(candidates[i].key) = 0


(***************************************************************************)
(* The accountant's ledger under every estimate a caller can pass:         *)
(* record_cost takes any CostEstimate and validates nothing, and           *)
(* estimate_cost validates no token count.                                 *)
(***************************************************************************)

\* The estimates of RecordChoices and estimate_cost("gpt-4o", -100000, 0), which
\* is a CostEstimate of -0.25 USD.
LedgerRecordChoices == RecordChoices \cup {estimate_cost(Id_gpt_4o, -100000, 0)}

InitLedger == InitBudget

NextLedger ==
    \/ \E e \in LedgerRecordChoices : Len(spending_history) < MaxRecords /\ RecordCost(e)
    \/ \E x \in AmountChoices : CheckBudget(x)
    \/ \E limit \in LimitChoices : SetBudget(limit)
    \/ GetSummary

SpecLedger == InitLedger /\ [][NextLedger]_vars

\* spending_history only grows at its end.
HistoryAppended ==
    /\ Len(spending_history') >= Len(spending_history)
    /\ SubSeq(spending_history', 1, Len(spending_history)) = spending_history

\* C26: after any operation of the accountant, record_cost with any CostEstimate
\* included, total_spent is non-negative and has not decreased, and
\* spending_history is append-only.
C26_LedgerNeverShrinks ==
    [][/\ total_spent' >= 0
       /\ total_spent' >= total_spent
       /\ HistoryAppended]_vars

\* What the code keeps: the history is append-only and total_spent is the sum of
\* the costs recorded.
C26_HistoryAppendOnly == [][HistoryAppended]_vars

C26_TotalIsSumOfHistory == total_spent = SumCosts(spending_history)

\* A recorded estimate has taken total_spent below zero.
C26_TotalWentNegative ==
    /\ total_spent < 0
    /\ Len(spending_history) = 1

\* C28: route changes neither the configuration nor the latency history;
\* no route or record_latency changes the configuration, and record_latency
\* changes the history of the key it is given and of no other key.
C28_RouteAndRecordFrame ==
    [][/\ config' = config
       /\ (pc = "idle" /\ pc' = "returned") => latency_history' = latency_history
       /\ DOMAIN latency_history \subseteq DOMAIN latency_history'
       /\ \A k \in DOMAIN latency_history' :
             ArrivalCount(k)' = ArrivalCount(k) =>
                 /\ k \in DOMAIN latency_history
                 /\ latency_history'[k] = latency_history[k]]_vars

\* A route has returned after samples were recorded for two keys.
C28_Witness ==
    /\ pc = "returned"
    /\ decision.kind = "decision"
    /\ DOMAIN latency_history = LatencyKeys
    /\ \A k \in LatencyKeys : latency_history[k] = arrivals[k] /\ Len(arrivals[k]) = 1

\* The remaining budget as C29 states it.
ClaimedRemaining ==
    IF budget_limit = None THEN None ELSE Some(budget_limit[1] - total_spent)

\* C29: get_summary reports remaining = budget_limit - total_spent whenever a
\* limit has been set, a limit of zero included, and no remaining only when no
\* limit was set; request_count is the number of record_cost calls; the values
\* of by_model sum to total_spent.
C29_SummaryAgreesWithLedger ==
    ret.op = "get_summary" =>
        /\ ret.result.remaining = ClaimedRemaining
        /\ ret.result.request_count = Len(recorded)
        /\ SumOver(ret.result.by_model, DOMAIN ret.result.by_model) = total_spent

\* What the code keeps: the counts and sums, and the remaining budget for every
\* limit but zero.
C29_SummaryRightButForZeroLimit ==
    ret.op = "get_summary" =>
        /\ budget_limit # Some(0) => ret.result.remaining = ClaimedRemaining
        /\ ret.result.request_count = Len(recorded)
        /\ SumOver(ret.result.by_model, DOMAIN ret.result.by_model) = total_spent

\* A limit of zero is set and get_summary reports no remaining budget.
C29_ZeroLimitReportsNoRemaining ==
    /\ ret.op = "get_summary"
    /\ budget_limit = Some(0)
    /\ ret.result.remaining = None

====
